---- MODULE Spec2Model ----
(***************************************************************************)
(* openfairdb: the repository use cases (business/usecase.rs, run against  *)
(* the in-memory MockRepo of its tests), the update pipeline               *)
(* (infrastructure/flows/update_entry.rs) and review_place                 *)
(* (ports/web/frontend/mod.rs).                                            *)
(*                                                                         *)
(* Seven specifications share one set of variables:                        *)
(*   Spec          create_new_entry / update_entry on the entry repository *)
(*   TagSpec       tags and triples: add_tag_to_entry, request_entry,      *)
(*                 get_tags_for_entry_id                                   *)
(*   FlowSpec      two concurrent requests running flows::update_entry     *)
(*   FlowLiveSpec  one request at a time, with fairness for its own steps  *)
(*   ResolveSpec   two callers of find_or_create_tag_id_by_name whose scan *)
(*                 and create steps interleave                             *)
(*   SearchSpec    search_by_tags and get_associated_entry_ids_of_tags on  *)
(*                 the repositories they may find                          *)
(*   ReviewSpec    review_place of the web frontend                        *)
(***************************************************************************)
EXTENDS Integers, Sequences, FiniteSets, TLC

VARIABLES
    entries,    \* MockRepo<Entry>.objects / the primary store's entry rows
    tags,       \* MockRepo<Tag>.objects
    triples,    \* MockRepo<SentenceTriple>.objects
    now,        \* the wall clock read by UTC::now().timestamp()
    last,       \* the use case call that completed last, and its result
    lock,       \* the request holding the exclusive connection, or NoProc
    txBegin,    \* the store as it was when the open transaction began
    flow,       \* per request of flows::update_entry: position and locals
    resolve,    \* per caller of find_or_create_tag_id_by_name: position, locals
    places,     \* the review status of each stored place
    review      \* the request of review_place: position and locals

vars ==
    <<entries, tags, triples, now, last, lock, txBegin, flow, resolve, places,
      review>>

---------------------------------------------------------------------------
\* Bounds of the model.

\* Largest version an update request is issued for.
MaxVersion == 1
\* Largest value of the clock.
MaxTime == 1
\* Identifiers Uuid::new_v4() may yield for an entry, and for a tag.
EntryIds == {"e1", "e2"}
TagIds == {"t1", "t2"}
\* Values of the descriptive attributes (title stands for all of them but
\* email, which validation reads).
Titles == {"foo", "bar"}
Emails == {"none", "invalid"}
Licenses == {"CC0-1.0"}
\* Tag names a caller passes.
TagNames == {"", "coffee", "vegan"}

NoProc == 0
Procs == {1, 2}

\* Most triples in a triple repository that a search starts from.
MaxTriples == 3

---------------------------------------------------------------------------
\* Results (std::result::Result<T, Error>).

Ok(v) == [ok |-> TRUE, err |-> "", val |-> <<v>>]
Err(e) == [ok |-> FALSE, err |-> e, val |-> <<>>]

\* Error::Repo(RepoError::..), Error::Parameter(ParameterError::Tag),
\* and the error of Validate.
NotFound == "Repo(NotFound)"
AlreadyExists == "Repo(AlreadyExists)"
InvalidVersion == "Repo(InvalidVersion)"
ParameterTag == "Parameter(Tag)"
ValidationError == "Validation"

---------------------------------------------------------------------------
\* The repository (trait Repo, implemented by MockRepo).

\* trait Id: the identifier of a stored object; a SentenceTriple has none.
IdOf(x) == IF "subject" \in DOMAIN x THEN "" ELSE x.id

Positions(objects, id) == {i \in 1..Len(objects) : IdOf(objects[i]) = id}

FirstPosition(objects, id) ==
    CHOOSE i \in Positions(objects, id) : \A j \in Positions(objects, id) : i <= j

\* MockRepo::get
RepoGet(objects, id) ==
    IF Positions(objects, id) = {}
    THEN Err(NotFound)
    ELSE Ok(objects[FirstPosition(objects, id)])

\* MockRepo::all
RepoAll(objects) == objects

\* A create that stores the object in the place of the one with its id.
RepoCreate_Replaces(objects, e) ==
    IF \E i \in 1..Len(objects) : IdOf(objects[i]) = IdOf(e)
    THEN [res |-> Ok("unit"),
          objects |-> [objects EXCEPT ![FirstPosition(objects, IdOf(e))] = e]]
    ELSE [res |-> Ok("unit"), objects |-> Append(objects, e)]

\* A create that stores every object it is given.
RepoCreate_Appends(objects, e) ==
    [res |-> Ok("unit"), objects |-> Append(objects, e)]

\* MockRepo::create: the result and the objects afterwards.
RepoCreate(objects, e) ==
    IF \E i \in 1..Len(objects) : IdOf(objects[i]) = IdOf(e)
    THEN [res |-> Err(AlreadyExists), objects |-> objects]
    ELSE [res |-> Ok("unit"), objects |-> Append(objects, e)]

\* MockRepo::update: the result and the objects afterwards.
RepoUpdate(objects, e) ==
    IF Positions(objects, IdOf(e)) = {}
    THEN [res |-> Err(NotFound), objects |-> objects]
    ELSE [res |-> Ok("unit"),
          objects |-> [objects EXCEPT ![FirstPosition(objects, IdOf(e))] = e]]

\* MockRepo::clear
RepoClear(objects) == <<>>

---------------------------------------------------------------------------
\* Entries.

\* NewEntry and UpdateEntry requests.
NewEntries == [title : Titles, email : Emails, license : Licenses]
UpdateEntries ==
    [id : EntryIds, version : 0..MaxVersion, title : Titles, email : Emails]

\* Validate for Entry: the email address, when present, is well formed.
Validate(e) == IF e.email = "invalid" THEN Err(ValidationError) ELSE Ok("unit")

\* The Entry create_new_entry builds from a request.
NewEntry(e, id, t) ==
    [id |-> id, created |-> t, version |-> 0, title |-> e.title,
     email |-> e.email, license |-> <<e.license>>]

\* A create_new_entry that stores the entry and validates it afterwards.
create_new_entry_WritesFirst(r, e, id, t) ==
    LET ent == NewEntry(e, id, t)
        c   == RepoCreate(r, ent) IN
    IF ~c.res.ok THEN [res |-> c.res, objects |-> r]
    ELSE IF ~Validate(ent).ok THEN [res |-> Validate(ent), objects |-> c.objects]
    ELSE [res |-> Ok(ent.id), objects |-> c.objects]

\* create_new_entry: the result and the repository afterwards.
create_new_entry(r, e, id, t) ==
    LET ent == NewEntry(e, id, t)
        c   == RepoCreate(r, ent) IN
    IF ~Validate(ent).ok THEN [res |-> Validate(ent), objects |-> r]
    ELSE IF ~c.res.ok THEN [res |-> c.res, objects |-> r]
    ELSE [res |-> Ok(ent.id), objects |-> c.objects]

\* A check that rejects only a request older than the stored entry.
VersionConflict_StaleOnly(old, e) == old.version > e.version

\* A check that rejects only a request newer than the stored entry.
VersionConflict_FutureOnly(old, e) == old.version < e.version

\* update_entry, the optimistic-concurrency check.
VersionConflict(old, e) == old.version # e.version

\* An update that carries the old timestamp over.
UpdatedEntry_KeepsCreated(old, e, t) ==
    [id |-> e.id, created |-> old.created, version |-> e.version + 1,
     title |-> e.title, email |-> e.email, license |-> old.license]

\* An update that leaves the version as it was.
UpdatedEntry_SameVersion(old, e, t) ==
    [id |-> e.id, created |-> t, version |-> e.version, title |-> e.title,
     email |-> e.email, license |-> old.license]

\* The Entry update_entry builds from the stored one and the request.
UpdatedEntry(old, e, t) ==
    [id |-> e.id, created |-> t, version |-> e.version + 1, title |-> e.title,
     email |-> e.email, license |-> old.license]

\* An update_entry that stores the entry of a request for an unknown id.
update_entry_Upserts(r, e, t) ==
    LET got == RepoGet(r, e.id) IN
    IF ~got.ok
    THEN [res |-> Ok("unit"),
          objects |-> Append(r, [id |-> e.id, created |-> t, version |-> 0,
                                 title |-> e.title, email |-> e.email,
                                 license |-> <<>>])]
    ELSE LET old == got.val[1] IN
         IF VersionConflict(old, e)
         THEN [res |-> Err(InvalidVersion), objects |-> r]
         ELSE [res |-> Ok("unit"),
               objects |-> RepoUpdate(r, UpdatedEntry(old, e, t)).objects]

\* An update_entry that stamps the stored entry also when it refuses the
\* request for its version.
update_entry_StampsOnConflict(r, e, t) ==
    LET got == RepoGet(r, e.id) IN
    IF ~got.ok THEN [res |-> got, objects |-> r]
    ELSE LET old == got.val[1] IN
         IF VersionConflict(old, e)
         THEN [res |-> Err(InvalidVersion),
               objects |-> RepoUpdate(r, [old EXCEPT !.created = t]).objects]
         ELSE [res |-> Ok("unit"),
               objects |-> RepoUpdate(r, UpdatedEntry(old, e, t)).objects]

\* update_entry: the result and the repository afterwards.
update_entry(r, e, t) ==
    LET got == RepoGet(r, e.id) IN
    IF ~got.ok THEN [res |-> got, objects |-> r]
    ELSE LET old == got.val[1] IN
         IF VersionConflict(old, e)
         THEN [res |-> Err(InvalidVersion), objects |-> r]
         ELSE LET u == RepoUpdate(r, UpdatedEntry(old, e, t)) IN
              IF ~u.res.ok THEN [res |-> u.res, objects |-> r]
              ELSE [res |-> Ok("unit"), objects |-> u.objects]

---------------------------------------------------------------------------
\* Tags and triples.

IsTaggedAs == "IsTaggedAs"

\* The SentenceTriple add_is_tagged_relation builds.
Triple(entry_id, tag_id) ==
    [subject |-> entry_id, predicate |-> IsTaggedAs, object |-> tag_id]

\* The Tag create_new_tag builds.
NewTag(name, id, t) == [id |-> id, created |-> t, version |-> 0, name |-> name]

\* The objects of the triples of s, in order.
ObjectsOf(s) == [i \in 1..Len(s) |-> s[i].object]

\* The subjects of the triples of s, in order.
SubjectsOf(s) == [i \in 1..Len(s) |-> s[i].subject]

\* The arm `SentenceTriple { subject : id, predicate : Predicate::IsTaggedAs,
\* object }` of get_tags_for_entry_id: `subject : id` binds the subject to a
\* new variable id, which shadows the parameter; it compares nothing.
TagArmMatches(t, id) == t.predicate = IsTaggedAs

\* get_tags_for_entry_id (rt is not read).
get_tags_for_entry_id(rt, rs, id) ==
    LET Arm(t) == TagArmMatches(t, id) IN
    Ok(ObjectsOf(SelectSeq(RepoAll(rs), Arm)))

\* request_entry: the stored entry as it is returned, with the tags of
\* get_tags_for_entry_id, or the error of re.get.
request_entry(re, rt, rs, id) ==
    LET got == RepoGet(re, id) IN
    IF ~got.ok THEN got
    ELSE LET e == got.val[1] IN
         Ok([id |-> e.id, created |-> e.created, version |-> e.version + 1,
             title |-> e.title, email |-> e.email, license |-> e.license,
             tags |-> get_tags_for_entry_id(rt, rs, id).val[1]])

\* create_new_tag: the result and the repository afterwards.
create_new_tag(r, name, id, t) ==
    LET c == RepoCreate(r, NewTag(name, id, t)) IN
    IF ~c.res.ok THEN [res |-> c.res, objects |-> r]
    ELSE [res |-> Ok(id), objects |-> c.objects]

\* `rt.all()?.into_iter().find(|t| t.name == tag)`: the tags of that name, the
\* first of which is found.
TagsNamed(rt, tag) ==
    LET Named(x) == x.name = tag IN SelectSeq(RepoAll(rt), Named)

\* find_or_create_tag_id_by_name: the result and the repository afterwards.
find_or_create_tag_id_by_name(rt, tag, id, t) ==
    LET found == TagsNamed(rt, tag) IN
    IF found # <<>> THEN [res |-> Ok(found[1].id), objects |-> rt]
    ELSE create_new_tag(rt, tag, id, t)

\* add_is_tagged_relation: the triples afterwards (the Result of create is
\* dropped).
add_is_tagged_relation(rs, entry_id, tag_id) ==
    RepoCreate(rs, Triple(entry_id, tag_id)).objects

\* A guard that lets every tag name pass.
TagNameRejected_Never(tag) == FALSE

\* `if tag == ""` of add_tag_to_entry.
TagNameRejected(tag) == tag = ""

\* An add_tag_to_entry that stores the triple without looking at the tags of
\* the entry and without asking the repository whether it may.
add_tag_to_entry_Unchecked(rt, rs, tag, entry_id, id, t) ==
    LET f == find_or_create_tag_id_by_name(rt, tag, id, t) IN
    IF tag = "" \/ ~f.res.ok
    THEN [res |-> Err(ParameterTag), tags |-> rt, triples |-> rs]
    ELSE [res |-> Ok("unit"), tags |-> f.objects,
          triples |-> Append(rs, Triple(entry_id, f.res.val[1]))]

\* add_tag_to_entry (re is not read): the result, and the tag and triple
\* repositories afterwards.
add_tag_to_entry(rt, rs, tag, entry_id, id, t) ==
    IF TagNameRejected(tag) THEN [res |-> Err(ParameterTag), tags |-> rt, triples |-> rs]
    ELSE LET f == find_or_create_tag_id_by_name(rt, tag, id, t)
             tag_ids_of_entry == get_tags_for_entry_id(f.objects, rs, entry_id).val[1]
         IN
         IF ~f.res.ok THEN [res |-> f.res, tags |-> f.objects, triples |-> rs]
         ELSE LET tag_id == f.res.val[1] IN
              IF \E i \in 1..Len(tag_ids_of_entry) : tag_ids_of_entry[i] = tag_id
              THEN [res |-> Ok("unit"), tags |-> f.objects, triples |-> rs]
              ELSE [res |-> Ok("unit"), tags |-> f.objects,
                    triples |-> add_is_tagged_relation(rs, entry_id, tag_id)]

---------------------------------------------------------------------------
\* Search by tags.

\* The elements of a Vec.
Elems(s) == {s[i] : i \in 1..Len(s)}

\* Vec::dedup: of every run of equal consecutive elements the first is kept.
RECURSIVE dedup(_)
dedup(s) ==
    IF Len(s) <= 1 THEN s
    ELSE IF s[1] = s[2] THEN dedup(Tail(s))
         ELSE <<s[1]>> \o dedup(Tail(s))

\* get_tag_ids_by_tags with every tag, whatever its name.
get_tag_ids_by_tags_All(rt, tag_names) ==
    Ok([i \in 1..Len(RepoAll(rt)) |-> RepoAll(rt)[i].id])

\* get_tag_ids_by_tags: the ids of the tags whose name is among tag_names
\* (a Vec, of which only the elements are read).
get_tag_ids_by_tags(rt, tag_names) ==
    LET Wanted(tag) == tag.name \in tag_names
        found == SelectSeq(RepoAll(rt), Wanted) IN
    Ok([i \in 1..Len(found) |-> found[i].id])

\* get_associated_entry_ids_of_tags without the filter on the object.
get_associated_entry_ids_of_tags_AnyObject(rs, tag_ids) ==
    Ok(dedup(SubjectsOf(RepoAll(rs))))

\* get_associated_entry_ids_of_tags: the subjects of the IsTaggedAs triples
\* whose object is among tag_ids, after ids.dedup().
get_associated_entry_ids_of_tags(rs, tag_ids) ==
    LET HasObject(triple) == triple.object \in Elems(tag_ids)
        IsTagged(triple) == triple.predicate = IsTaggedAs IN
    Ok(dedup(SubjectsOf(SelectSeq(SelectSeq(RepoAll(rs), HasObject), IsTagged))))

\* get_entries_by_ids that takes an empty list of ids for no restriction.
get_entries_by_ids_AllIfEmpty(re, ids) ==
    LET Listed(entry) == ids = <<>> \/ entry.id \in Elems(ids) IN
    Ok(SelectSeq(RepoAll(re), Listed))

\* get_entries_by_ids: the stored entries whose id is among ids.
get_entries_by_ids(re, ids) ==
    LET Listed(entry) == entry.id \in Elems(ids) IN
    Ok(SelectSeq(RepoAll(re), Listed))

\* search_by_tags (no repository is written; every step returns Ok).
search_by_tags(re, rt, rs, tag_names) ==
    LET tag_ids == get_tag_ids_by_tags(rt, tag_names).val[1]
        ids == get_associated_entry_ids_of_tags(rs, tag_ids).val[1] IN
    Ok(get_entries_by_ids(re, ids).val[1])

---------------------------------------------------------------------------
\* flows::update_entry: the helpers of the pipeline.

\* The entry the requests of the pipeline are for.
FlowEntry == "e1"
FlowRequests == {e \in UpdateEntries : e.id = FlowEntry}
NoRequest == [id |-> "", version |-> 0, title |-> "", email |-> ""]

\* The errors of the storage backend: RepoError::from(diesel::result::Error)
\* of an aborted transaction, and a connection that could not be acquired.
RollbackError == "Repo(RollbackTransaction)"
ConnectionError == "Repo(Connection)"

\* usecases::prepare_updated_place_rev: the version-checked validation and the
\* new record, or the error.
prepare_updated_place_rev(store, e, t) ==
    LET got == RepoGet(store, e.id) IN
    IF ~got.ok THEN got
    ELSE LET old == got.val[1] IN
         IF VersionConflict(old, e) THEN Err(InvalidVersion)
         ELSE IF ~Validate(UpdatedEntry(old, e, t)).ok
              THEN Validate(UpdatedEntry(old, e, t))
              ELSE Ok(UpdatedEntry(old, e, t))

\* usecases::store_updated_place_rev, when the backend stores the revision.
store_updated_place_rev(store, storable) == RepoUpdate(store, storable).objects

\* A map_err that always gives the error of the aborted transaction.
TransactionError_Generic(prepare_err) == Err(RollbackError)

\* The error `.map_err(..)` gives the caller for an aborted transaction.
TransactionError(prepare_err) ==
    IF prepare_err # "" THEN Err(prepare_err) ELSE Err(RollbackError)

\* An abort that keeps what the closure wrote.
RolledBack_KeepsWrites(store, begin) == store

\* The store after connection.transaction(..) ended with Err: rolled back.
RolledBack(store, begin) == begin

\* A pipeline that goes on to reindex whatever phase 1 gave.
AfterPhase1_GoesOn(phase1) == "index"

\* `}?;` after phase 1: where the request goes on.
AfterPhase1(phase1) == IF phase1.ok THEN "index" ELSE "done"

\* A pipeline that returns the error of the indexer or the notifier.
FlowResult_Propagates(place, index_ok, notify_ok) ==
    IF index_ok /\ notify_ok THEN Ok(place) ELSE Err("BestEffort")

\* The value update_entry returns after the reindex and notification steps.
FlowResult(place, index_ok, notify_ok) == Ok(place)

---------------------------------------------------------------------------
\* review_place (ports/web/frontend) and what it calls.

\* Role, in the order of its privileges.
RoleUser == 1
RoleScout == 2
RoleAdmin == 3

\* The registered users and their roles; "nobody" is no registered user.
Users == [email \in {"user", "scout", "admin"} |->
             CASE email = "user" -> RoleUser
               [] email = "scout" -> RoleScout
               [] email = "admin" -> RoleAdmin]
ReviewerEmails == DOMAIN Users \cup {"nobody"}

\* The status codes a request carries (an i16; MaxStatusCode is the largest
\* magnitude tried), and the place ids.
MaxStatusCode == 3
StatusCodes == (-MaxStatusCode)..MaxStatusCode
PlaceIds == {"p1", "p2", "p3"}

Unauthorized == "Parameter(Unauthorized)"
ParameterRatingContext == "Parameter(RatingContext)"

\* usecases::authorize_user_by_email: the user, if registered with at least
\* the role required.
authorize_user_by_email(email, min_required_role) ==
    IF email \in DOMAIN Users /\ Users[email] >= min_required_role
    THEN Ok(email)
    ELSE Err(Unauthorized)

\* ReviewStatus::try_from(i16): the status of a code, or None (<<>>).
ReviewStatus_try_from(status) ==
    CASE status = -1 -> <<"rejected">>
      [] status = 0 -> <<"archived">>
      [] status = 1 -> <<"created">>
      [] status = 2 -> <<"confirmed">>
      [] OTHER -> <<>>

\* review_places(db, search_engine, ids, review): the number of places
\* updated and the places afterwards.
review_places(store, ids, review_status) ==
    [update_count |-> Cardinality(ids \cap DOMAIN store),
     places |-> [id \in DOMAIN store |->
                    IF id \in ids THEN review_status ELSE store[id]]]

\* The result of review_place after review_places returned update_count.
ReviewResult(update_count) ==
    IF update_count = 0 THEN Err(NotFound) ELSE Ok("unit")

---------------------------------------------------------------------------
\* State.

\* A request of flows::update_entry before it is invoked: its position, the
\* UpdateEntry it carries, the version stored when it was issued (-1: no
\* such entry), prepare_err, the storable of prepare, the result
\* of phase 1, the calls of the indexer and of the notifier and whether they
\* succeeded, and the result returned.
IdleFlow ==
    [pc |-> "idle", req |-> NoRequest, issued_at |-> -1,
     prepare_err |-> "", storable |-> <<>>,
     phase1 |-> Err(""), index_calls |-> 0, index_ok |-> TRUE,
     notify_calls |-> 0, notify_ok |-> TRUE, result |-> Err("")]

\* A caller of find_or_create_tag_id_by_name before the call: its position,
\* the tag name it passes, whether its scan found no tag of that name, and
\* the result returned.
IdleResolve == [pc |-> "idle", tag |-> "", missed |-> FALSE, result |-> Err("")]

\* The places of the store, each with the review status it has at first.
StoredPlaces == [id \in {"p1", "p2"} |-> "created"]

\* review_place before it is called: its position, the arguments email,
\* status and id, reviewer_email and the converted status once they are
\* there, the places as they were at the call, the calls of review_places
\* and the update count it gave, and the result returned.
IdleReview ==
    [pc |-> "idle", email |-> "", status |-> 0, id |-> "",
     reviewer_email |-> <<>>, review_status |-> <<>>,
     before |-> StoredPlaces, calls |-> 0, update_count |-> <<>>,
     result |-> Err("")]

\* No call has completed, or its result was taken.
NoCall == [op |-> "none", arg |-> <<>>, res |-> Ok("unit")]

Init ==
    /\ entries = <<>>
    /\ tags = <<>>
    /\ triples = <<>>
    /\ now = 0
    /\ last = NoCall
    /\ lock = NoProc
    /\ txBegin = <<>>
    /\ flow = [p \in Procs |-> IdleFlow]
    /\ resolve = [p \in Procs |-> IdleResolve]
    /\ places = StoredPlaces
    /\ review = IdleReview

\* The clock advances.
Tick ==
    /\ now < MaxTime
    /\ now' = now + 1
    /\ UNCHANGED <<entries, tags, triples, last, lock, txBegin, flow, resolve, places, review>>

\* A call of create_new_entry(&mut entries, e); Uuid::new_v4() yields id.
CreateNewEntry(e, id) ==
    /\ LET c == create_new_entry(entries, e, id, now) IN
       /\ entries' = c.objects
       /\ last' = [op |-> "create_new_entry", arg |-> <<e, id>>, res |-> c.res]
    /\ UNCHANGED <<tags, triples, now, lock, txBegin, flow, resolve, places, review>>

\* A call of update_entry(&mut entries, e).
UpdateEntry(e) ==
    /\ LET u == update_entry(entries, e, now) IN
       /\ entries' = u.objects
       /\ last' = [op |-> "update_entry", arg |-> <<e>>, res |-> u.res]
    /\ UNCHANGED <<tags, triples, now, lock, txBegin, flow, resolve, places, review>>

\* The caller has taken the result of its call.
Return ==
    /\ last.op # "none"
    /\ last' = NoCall
    /\ UNCHANGED <<entries, tags, triples, now, lock, txBegin, flow, resolve, places, review>>

\* One caller: a call is made when the result of the one before was taken.
Next ==
    \/ last.op = "none" /\ Tick
    \/ last.op = "none" /\ \E e \in NewEntries, id \in EntryIds : CreateNewEntry(e, id)
    \/ last.op = "none" /\ \E e \in UpdateEntries : UpdateEntry(e)
    \/ Return

Spec == Init /\ [][Next]_vars

---------------------------------------------------------------------------
\* The tag use cases, on the three repositories.

\* The request the entries of TagSpec are created from.
PlainEntry == [title |-> "foo", email |-> "none", license |-> "CC0-1.0"]

\* The call before this one was add_tag_to_entry with the same tag and entry.
SameCallAgain(tag, entry_id) ==
    last.op = "add_tag_to_entry" /\ last.arg = <<tag, entry_id>>

\* A call of add_tag_to_entry(&re, &mut rt, &mut rs, tag, entry_id);
\* Uuid::new_v4() yields id if a tag is created.
AddTagToEntry(tag, entry_id, id) ==
    /\ LET a == add_tag_to_entry(tags, triples, tag, entry_id, id, now) IN
       /\ tags' = a.tags
       /\ triples' = a.triples
       /\ last' = [op |-> "add_tag_to_entry", arg |-> <<tag, entry_id>>,
                   res |-> a.res, again |-> SameCallAgain(tag, entry_id)]
    /\ UNCHANGED <<entries, now, lock, txBegin, flow, resolve, places, review>>

\* A call of get_tags_for_entry_id(&rt, &rs, id).
GetTagsForEntryId(id) ==
    /\ last' = [op |-> "get_tags_for_entry_id", arg |-> <<id>>,
                res |-> get_tags_for_entry_id(tags, triples, id)]
    /\ UNCHANGED <<entries, tags, triples, now, lock, txBegin, flow, resolve, places, review>>

\* A call of request_entry(&re, &rt, &rs, id).
RequestEntry(id) ==
    /\ last' = [op |-> "request_entry", arg |-> <<id>>,
                res |-> request_entry(entries, tags, triples, id)]
    /\ UNCHANGED <<entries, tags, triples, now, lock, txBegin, flow, resolve, places, review>>

\* The triples are removed (MockRepo::clear on the triple repository).
ClearTriples ==
    /\ triples # <<>>
    /\ triples' = RepoClear(triples)
    /\ last' = [op |-> "clear", arg |-> <<>>, res |-> Ok("unit")]
    /\ UNCHANGED <<entries, tags, now, lock, txBegin, flow, resolve, places, review>>

TagNext ==
    \/ \E id \in EntryIds : CreateNewEntry(PlainEntry, id)
    \/ \E tag \in TagNames, entry_id \in EntryIds, id \in TagIds :
          AddTagToEntry(tag, entry_id, id)
    \/ \E id \in EntryIds : GetTagsForEntryId(id)
    \/ \E id \in EntryIds : RequestEntry(id)
    \/ ClearTriples

TagSpec == Init /\ [][TagNext]_vars

---------------------------------------------------------------------------
\* flows::update_entry, run by the requests of Procs.

\* The version stored for id, or -1.
StoredVersion(store, id) ==
    IF RepoGet(store, id).ok THEN RepoGet(store, id).val[1].version ELSE -1

\* create_new_entry through an exclusive connection of its own (the store of
\* FlowSpec holds the entry the requests are for).
FlowCreateEntry(id) ==
    /\ lock = NoProc
    /\ entries' = create_new_entry(entries, PlainEntry, id, now).objects
    /\ UNCHANGED <<tags, triples, now, last, lock, txBegin, flow, resolve, places, review>>

\* update_entry(connections, indexer, uid, update_entry, account_email) is
\* called.
FlowInvoke(p, e) ==
    /\ flow[p].pc \in {"idle", "done"}
    /\ flow' = [flow EXCEPT ![p] = [IdleFlow EXCEPT !.pc = "acquire", !.req = e,
                                                    !.issued_at = StoredVersion(entries, e.id)]]
    /\ UNCHANGED <<entries, tags, triples, now, last, lock, txBegin, resolve, places, review>>

\* connections.exclusive()? succeeds and the transaction begins.
FlowAcquire(p) ==
    /\ flow[p].pc = "acquire"
    /\ lock = NoProc
    /\ lock' = p
    /\ txBegin' = entries
    /\ flow' = [flow EXCEPT ![p].pc = "prepare"]
    /\ UNCHANGED <<entries, tags, triples, now, last, resolve, places, review>>

\* connections.exclusive()? fails: update_entry returns the error.
FlowAcquireFails(p) ==
    /\ flow[p].pc = "acquire"
    /\ flow' = [flow EXCEPT ![p].pc = "done",
                            ![p].phase1 = Err(ConnectionError),
                            ![p].result = Err(ConnectionError)]
    /\ UNCHANGED <<entries, tags, triples, now, last, lock, txBegin, resolve, places, review>>

\* The closure calls prepare_updated_place_rev.
FlowPrepare(p) ==
    /\ flow[p].pc = "prepare"
    /\ LET r == prepare_updated_place_rev(entries, flow[p].req, now) IN
       flow' = IF r.ok
               THEN [flow EXCEPT ![p].pc = "store", ![p].storable = r.val]
               ELSE [flow EXCEPT ![p].pc = "rollback", ![p].prepare_err = r.err]
    /\ UNCHANGED <<entries, tags, triples, now, last, lock, txBegin, resolve, places, review>>

\* store_updated_place_rev stores the new revision.
FlowStore(p) ==
    /\ flow[p].pc = "store"
    /\ entries' = store_updated_place_rev(entries, flow[p].storable[1])
    /\ flow' = [flow EXCEPT ![p].pc = "commit"]
    /\ UNCHANGED <<tags, triples, now, last, lock, txBegin, resolve, places, review>>

\* store_updated_place_rev fails, before or after it wrote the revision.
FlowStoreFails(p, written) ==
    /\ flow[p].pc = "store"
    /\ entries' = IF written
                  THEN store_updated_place_rev(entries, flow[p].storable[1])
                  ELSE entries
    /\ flow' = [flow EXCEPT ![p].pc = "rollback"]
    /\ UNCHANGED <<tags, triples, now, last, lock, txBegin, resolve, places, review>>

\* The closure returned Ok: the transaction commits.
FlowCommit(p) ==
    /\ flow[p].pc = "commit"
    /\ flow' = [flow EXCEPT ![p].pc = "release",
                            ![p].phase1 = Ok(flow[p].storable[1])]
    /\ UNCHANGED <<entries, tags, triples, now, last, lock, txBegin, resolve, places, review>>

\* The closure returned Err(RollbackTransaction): the transaction is rolled
\* back and its error mapped.
FlowRollback(p) ==
    /\ flow[p].pc = "rollback"
    /\ entries' = RolledBack(entries, txBegin)
    /\ flow' = [flow EXCEPT ![p].pc = "release",
                            ![p].phase1 = TransactionError(flow[p].prepare_err)]
    /\ UNCHANGED <<tags, triples, now, last, lock, txBegin, resolve, places, review>>

\* An end of phase 1 that keeps the exclusive connection when phase 1 failed.
FlowRelease_OnSuccessOnly(p) ==
    /\ flow[p].pc = "release"
    /\ lock' = IF flow[p].phase1.ok THEN NoProc ELSE lock
    /\ txBegin' = <<>>
    /\ flow' = [flow EXCEPT ![p].pc = AfterPhase1(flow[p].phase1),
                            ![p].result = IF flow[p].phase1.ok
                                          THEN flow[p].result
                                          ELSE flow[p].phase1]
    /\ UNCHANGED <<entries, tags, triples, now, last, resolve, places, review>>

\* The block of phase 1 ends: the exclusive connection is dropped, and `?`
\* returns the error of a failed phase 1.
FlowRelease(p) ==
    /\ flow[p].pc = "release"
    /\ lock' = NoProc
    /\ txBegin' = <<>>
    /\ flow' = [flow EXCEPT ![p].pc = AfterPhase1(flow[p].phase1),
                            ![p].result = IF flow[p].phase1.ok
                                          THEN flow[p].result
                                          ELSE flow[p].phase1]
    /\ UNCHANGED <<entries, tags, triples, now, last, resolve, places, review>>

\* A reindex step whose failure undoes the write of the transaction.
FlowIndex_Undoes(p, ok) ==
    /\ flow[p].pc = "index"
    /\ entries' = IF ok THEN entries ELSE txBegin
    /\ flow' = [flow EXCEPT ![p].pc = "notify",
                            ![p].index_calls = @ + 1,
                            ![p].index_ok = ok]
    /\ UNCHANGED <<tags, triples, now, last, lock, txBegin, resolve, places, review>>

\* A reindex step that is tried again after a failure.
FlowIndex_Retries(p, ok) ==
    /\ flow[p].pc = "index"
    /\ flow' = [flow EXCEPT ![p].pc = IF ok THEN "notify" ELSE "index",
                            ![p].index_calls = @ + 1,
                            ![p].index_ok = ok]
    /\ UNCHANGED <<entries, tags, triples, now, last, lock, txBegin, resolve, places, review>>

\* index_entry(..).and_then(|_| indexer.flush()) succeeds or fails; a failure
\* is logged.
FlowIndex(p, ok) ==
    /\ flow[p].pc = "index"
    /\ flow' = [flow EXCEPT ![p].pc = "notify",
                            ![p].index_calls = @ + 1,
                            ![p].index_ok = ok]
    /\ UNCHANGED <<entries, tags, triples, now, last, lock, txBegin, resolve, places, review>>

\* notify_entry_updated succeeds or fails; a failure is logged. Then
\* update_entry returns.
FlowNotify(p, ok) ==
    /\ flow[p].pc = "notify"
    /\ flow' = [flow EXCEPT ![p].pc = "done",
                            ![p].notify_calls = @ + 1,
                            ![p].notify_ok = ok,
                            ![p].result = FlowResult(flow[p].phase1.val[1],
                                                     flow[p].index_ok, ok)]
    /\ UNCHANGED <<entries, tags, triples, now, last, lock, txBegin, resolve, places, review>>

FlowNext ==
    \/ FlowCreateEntry(FlowEntry)
    \/ \E p \in Procs, e \in FlowRequests : FlowInvoke(p, e)
    \/ \E p \in Procs : FlowAcquire(p)
    \/ \E p \in Procs : FlowAcquireFails(p)
    \/ \E p \in Procs : FlowPrepare(p)
    \/ \E p \in Procs : FlowStore(p)
    \/ \E p \in Procs, written \in BOOLEAN : FlowStoreFails(p, written)
    \/ \E p \in Procs : FlowCommit(p)
    \/ \E p \in Procs : FlowRollback(p)
    \/ \E p \in Procs : FlowRelease(p)
    \/ \E p \in Procs, ok \in BOOLEAN : FlowIndex(p, ok)
    \/ \E p \in Procs, ok \in BOOLEAN : FlowNotify(p, ok)

FlowSpec == Init /\ [][FlowNext]_vars

\* The steps request p takes by itself, in the thread that runs update_entry.
RequestSteps(p) ==
    \/ FlowAcquire(p)
    \/ FlowAcquireFails(p)
    \/ FlowPrepare(p)
    \/ FlowStore(p)
    \/ \E written \in BOOLEAN : FlowStoreFails(p, written)
    \/ FlowCommit(p)
    \/ FlowRollback(p)
    \/ FlowRelease(p)

\* The steps in which a call of the indexer or of the notifier returns to
\* request p.
CollaboratorSteps(p) ==
    \/ \E ok \in BOOLEAN : FlowIndex(p, ok)
    \/ \E ok \in BOOLEAN : FlowNotify(p, ok)

\* One request at a time.
FlowLiveNext ==
    \/ FlowCreateEntry(FlowEntry)
    \/ \E e \in FlowRequests : FlowInvoke(1, e)
    \/ RequestSteps(1)
    \/ CollaboratorSteps(1)

\* The thread of the request keeps running; whether a call of the indexer or
\* of the notifier ever returns is up to them.
FlowLiveSpec == Init /\ [][FlowLiveNext]_vars /\ WF_vars(RequestSteps(1))

---------------------------------------------------------------------------
\* find_or_create_tag_id_by_name, run by the callers of Procs on one tag
\* repository: the scan and the create are steps of their own.

\* An identifier Uuid::new_v4() yields: one no stored tag has.
FreshTagIds(rt) == {id \in TagIds : \A i \in 1..Len(rt) : rt[i].id # id}

\* find_or_create_tag_id_by_name(rt, tag) is called and scans rt.all(): a tag
\* of that name is returned, or the caller goes on to create one.
ResolveScan(p, tag) ==
    /\ resolve[p].pc \in {"idle", "done"}
    /\ LET found == TagsNamed(tags, tag) IN
       resolve' = [resolve EXCEPT ![p] =
                      IF found # <<>>
                      THEN [pc |-> "done", tag |-> tag, missed |-> FALSE,
                            result |-> Ok(found[1].id)]
                      ELSE [pc |-> "create", tag |-> tag, missed |-> TRUE,
                            result |-> Err("")]]
    /\ UNCHANGED <<entries, tags, triples, now, last, lock, txBegin, flow, places, review>>

\* The None arm: create_new_tag(rt, NewTag { name }) and `?`.
ResolveCreate(p, id) ==
    /\ resolve[p].pc = "create"
    /\ id \in FreshTagIds(tags)
    /\ LET c == create_new_tag(tags, resolve[p].tag, id, now) IN
       /\ tags' = c.objects
       /\ resolve' = [resolve EXCEPT ![p].pc = "done", ![p].result = c.res]
    /\ UNCHANGED <<entries, triples, now, last, lock, txBegin, flow, places, review>>

\* The names find_or_create_tag_id_by_name is called with: add_tag_to_entry,
\* its caller, passes no empty name on.
ResolvedNames == TagNames \ {""}

ResolveNext ==
    \/ \E p \in Procs, tag \in ResolvedNames : ResolveScan(p, tag)
    \/ \E p \in Procs, id \in TagIds : ResolveCreate(p, id)
    \/ \E tag \in TagNames, entry_id \in EntryIds, id \in TagIds :
          AddTagToEntry(tag, entry_id, id)

ResolveSpec == Init /\ [][ResolveNext]_vars

---------------------------------------------------------------------------
\* search_by_tags, applied to the repositories a search may find.

\* The sequences of at most n elements of S, no element twice.
DistinctSeqs(S, n) ==
    {s \in UNION {[1..k -> S] : k \in 0..n} :
        \A i \in 1..Len(s), j \in 1..Len(s) : i # j => s[i] # s[j]}

\* The entry repositories: stored entries, no identifier twice.
EntryStores ==
    {[i \in 1..Len(s) |-> NewEntry(PlainEntry, s[i], 0)] :
        s \in DistinctSeqs(EntryIds, Cardinality(EntryIds))}

\* The tag repositories: stored tags, no identifier twice.
TagStores ==
    {rt \in UNION {[1..k -> {NewTag(name, id, 0) : name \in ResolvedNames, id \in TagIds}] :
                      k \in 0..Cardinality(TagIds)} :
        \A i \in 1..Len(rt), j \in 1..Len(rt) : i # j => rt[i].id # rt[j].id}

\* The triple repositories: IsTaggedAs triples of entry and tag identifiers,
\* stored or not, no triple twice.
TripleStores ==
    DistinctSeqs({Triple(entry_id, tag_id) : entry_id \in EntryIds, tag_id \in TagIds},
                 MaxTriples)

\* No search was made yet.
NoSearch == [op |-> "none", arg |-> <<>>, res |-> Ok(<<>>)]

SearchInit ==
    /\ entries \in EntryStores
    /\ tags \in TagStores
    /\ triples \in TripleStores
    /\ now = 0
    /\ last = NoSearch
    /\ lock = NoProc
    /\ txBegin = <<>>
    /\ flow = [p \in Procs |-> IdleFlow]
    /\ resolve = [p \in Procs |-> IdleResolve]
    /\ places = StoredPlaces
    /\ review = IdleReview

\* A call of search_by_tags(&re, &mut rt, &rs, &tag_names).
SearchByTags(tag_names) ==
    /\ last' = [op |-> "search_by_tags", arg |-> <<tag_names>>,
                res |-> search_by_tags(entries, tags, triples, tag_names)]
    /\ UNCHANGED <<entries, tags, triples, now, lock, txBegin, flow, resolve, places, review>>

\* A call of get_associated_entry_ids_of_tags(&rs, &tag_ids).
GetAssociatedEntryIdsOfTags(tag_ids) ==
    /\ last' = [op |-> "get_associated_entry_ids_of_tags", arg |-> <<tag_ids>>,
                res |-> get_associated_entry_ids_of_tags(triples, tag_ids)]
    /\ UNCHANGED <<entries, tags, triples, now, lock, txBegin, flow, resolve, places, review>>

SearchNext ==
    \/ \E tag_names \in SUBSET TagNames : SearchByTags(tag_names)
    \/ \E tag_ids \in DistinctSeqs(TagIds, Cardinality(TagIds)) :
          GetAssociatedEntryIdsOfTags(tag_ids)

SearchSpec == SearchInit /\ [][SearchNext]_vars

---------------------------------------------------------------------------
\* review_place, one request at a time.

\* review_place(db, email, status, comment, id, search_engine) is called.
ReviewInvoke(email, status, id) ==
    /\ review.pc \in {"idle", "done"}
    /\ review' = [IdleReview EXCEPT !.pc = "shared", !.email = email,
                                    !.status = status, !.id = id,
                                    !.before = places]
    /\ UNCHANGED <<entries, tags, triples, now, last, lock, txBegin, flow,
                   resolve, places>>

\* db.shared()? gives the connection, or fails and review_place returns.
ReviewShared(ok) ==
    /\ review.pc = "shared"
    /\ review' = IF ok THEN [review EXCEPT !.pc = "authorize"]
                 ELSE [review EXCEPT !.pc = "done",
                                     !.result = Err(ConnectionError)]
    /\ UNCHANGED <<entries, tags, triples, now, last, lock, txBegin, flow,
                   resolve, places>>

\* An authorization whose failure is not looked at.
ReviewAuthorize_Unchecked ==
    /\ review.pc = "authorize"
    /\ review' = [review EXCEPT !.pc = "convert",
                                !.reviewer_email = <<review.email>>]
    /\ UNCHANGED <<entries, tags, triples, now, last, lock, txBegin, flow,
                   resolve, places>>

\* usecases::authorize_user_by_email(&*db, email, Role::Scout)?.email
ReviewAuthorize ==
    /\ review.pc = "authorize"
    /\ LET a == authorize_user_by_email(review.email, RoleScout) IN
       review' = IF a.ok
                 THEN [review EXCEPT !.pc = "convert", !.reviewer_email = a.val]
                 ELSE [review EXCEPT !.pc = "done", !.result = a]
    /\ UNCHANGED <<entries, tags, triples, now, last, lock, txBegin, flow,
                   resolve, places>>

\* ReviewStatus::try_from(status).ok_or_else(|| ..RatingContext..)?
ReviewConvert ==
    /\ review.pc = "convert"
    /\ LET s == ReviewStatus_try_from(review.status) IN
       review' = IF s # <<>>
                 THEN [review EXCEPT !.pc = "review", !.review_status = s]
                 ELSE [review EXCEPT !.pc = "done",
                                     !.result = Err(ParameterRatingContext)]
    /\ UNCHANGED <<entries, tags, triples, now, last, lock, txBegin, flow,
                   resolve, places>>

\* review_places(&db, &mut search_engine, &[&id], review)? returns the update
\* count, or fails with nothing updated; then the check of update_count.
ReviewPlaces(ok) ==
    /\ review.pc = "review"
    /\ LET r == review_places(places, {review.id}, review.review_status[1]) IN
       IF ok
       THEN /\ places' = r.places
            /\ review' = [review EXCEPT !.pc = "done", !.calls = @ + 1,
                                        !.update_count = <<r.update_count>>,
                                        !.result = ReviewResult(r.update_count)]
       ELSE /\ places' = places
            /\ review' = [review EXCEPT !.pc = "done", !.calls = @ + 1,
                                        !.result = Err(ConnectionError)]
    /\ UNCHANGED <<entries, tags, triples, now, last, lock, txBegin, flow,
                   resolve>>

ReviewNext ==
    \/ \E email \in ReviewerEmails, status \in StatusCodes, id \in PlaceIds :
          ReviewInvoke(email, status, id)
    \/ \E ok \in BOOLEAN : ReviewShared(ok)
    \/ ReviewAuthorize
    \/ ReviewConvert
    \/ \E ok \in BOOLEAN : ReviewPlaces(ok)

ReviewSpec == Init /\ [][ReviewNext]_vars

---------------------------------------------------------------------------
\* Properties of update_entry (Spec).

\* The stored entry with identifier id (the repository holds one).
Stored(r, id) == RepoGet(r, id).val[1]

\* The step is a call of update_entry; last' holds its request and result.
IsUpdateEntry == last'.op = "update_entry" /\ UpdateEntry(last'.arg[1])

\* C1: an update_entry whose request carries a version other than the stored
\* one fails with RepoError::InvalidVersion and leaves the whole repository
\* as it was.
C1_InvalidVersionRejected ==
    [][(/\ IsUpdateEntry
        /\ RepoGet(entries, last'.arg[1].id).ok
        /\ Stored(entries, last'.arg[1].id).version # last'.arg[1].version)
       => /\ last'.res = Err(InvalidVersion)
          /\ entries' = entries]_vars

\* An update with a wrong version of a stored entry was rejected.
C1_Witness ==
    /\ last.op = "update_entry"
    /\ last.res = Err(InvalidVersion)
    /\ \E i \in 1..Len(entries) : entries[i].version > 0

\* C3: a successful update_entry leaves the entry with the stored version
\* plus one, its identifier and license, the request's editable fields and
\* the time of the update as created; no entry is added or removed and the
\* other entries are as they were.
C3_SuccessfulUpdate ==
    [][(IsUpdateEntry /\ last'.res.ok)
       => LET e == last'.arg[1] IN
          /\ RepoGet(entries, e.id).ok
          /\ RepoGet(entries', e.id).ok
          /\ LET old == Stored(entries, e.id)
                 new == Stored(entries', e.id) IN
             /\ new.version = old.version + 1
             /\ new.id = old.id
             /\ new.license = old.license
             /\ new.title = e.title
             /\ new.email = e.email
             /\ new.created = now
             /\ new.created >= now
          /\ Len(entries') = Len(entries)
          /\ \A i \in 1..Len(entries) :
                entries[i].id # e.id => entries'[i] = entries[i]]_vars

\* An entry created at time 0 was updated at a later time, beside another.
C3_Witness ==
    /\ last.op = "update_entry"
    /\ last.res.ok
    /\ Len(entries) = 2
    /\ \E i \in 1..Len(entries) :
          entries[i].version = 2 /\ entries[i].created = now /\ now > 0

\* The step is a call of create_new_entry; last' holds its request, the
\* identifier drawn and the result.
IsCreateNewEntry ==
    last'.op = "create_new_entry" /\ CreateNewEntry(last'.arg[1], last'.arg[2])

\* The identifiers of the stored objects.
StoredIds(objects) == {IdOf(objects[i]) : i \in 1..Len(objects)}

\* C17: a successful create_new_entry adds one entry to the repository, with
\* version 0 and an identifier no stored entry had, returns that identifier,
\* and leaves the entries stored before as they were.
C17_CreateAddsOne ==
    [][(IsCreateNewEntry /\ last'.res.ok)
       => /\ Len(entries') = Len(entries) + 1
          /\ SubSeq(entries', 1, Len(entries)) = entries
          /\ entries'[Len(entries')].version = 0
          /\ entries'[Len(entries')].id \notin StoredIds(entries)
          /\ last'.res = Ok(entries'[Len(entries')].id)
          /\ Cardinality(StoredIds(entries')) = Len(entries')]_vars

\* A second entry was created beside one that had been updated.
C17_Witness ==
    /\ last.op = "create_new_entry"
    /\ last.res.ok
    /\ Len(entries) = 2
    /\ entries[1].version > 0
    /\ entries[2].version = 0
    /\ last.res = Ok(entries[2].id)

\* C18: a create_new_entry whose entry does not validate returns an error and
\* leaves the repository as it was.
C18_InvalidNotStored ==
    [][(/\ IsCreateNewEntry
        /\ ~Validate(NewEntry(last'.arg[1], last'.arg[2], now)).ok)
       => /\ ~last'.res.ok
          /\ entries' = entries]_vars

\* An entry with a malformed email address and an identifier not yet stored
\* was refused, with another entry stored.
C18_Witness ==
    /\ last.op = "create_new_entry"
    /\ last.arg[1].email = "invalid"
    /\ last.res = Err(ValidationError)
    /\ entries # <<>>
    /\ last.arg[2] \notin StoredIds(entries)

\* C19: an update_entry for an identifier that is not stored returns
\* RepoError::NotFound and leaves the repository as it was; it stores no
\* entry.
C19_UpdateOfUnknownId ==
    [][(IsUpdateEntry /\ last'.arg[1].id \notin StoredIds(entries))
       => /\ last'.res = Err(NotFound)
          /\ entries' = entries]_vars

\* An update for an identifier not stored was refused, with another entry
\* stored.
C19_Witness ==
    /\ last.op = "update_entry"
    /\ last.res = Err(NotFound)
    /\ Len(entries) = 1
    /\ last.arg[1].id \notin StoredIds(entries)

\* C20: a create of an entry whose identifier is stored returns
\* RepoError::AlreadyExists and leaves the repository as it was, and in every
\* state reached by creates and updates no two stored entries have the same
\* identifier, so that get finds the one entry of an identifier.
C20_CreateKeepsIdsUnique ==
    /\ [](/\ Cardinality(StoredIds(entries)) = Len(entries)
          /\ \A i \in 1..Len(entries) :
                RepoGet(entries, entries[i].id) = Ok(entries[i]))
    /\ [][(/\ IsCreateNewEntry
           /\ Validate(NewEntry(last'.arg[1], last'.arg[2], now)).ok
           /\ last'.arg[2] \in StoredIds(entries))
          => /\ last'.res = Err(AlreadyExists)
             /\ entries' = entries]_vars

\* A create with a stored identifier was refused, with two entries stored
\* of which one had been updated.
C20_Witness ==
    /\ last.op = "create_new_entry"
    /\ last.res = Err(AlreadyExists)
    /\ Len(entries) = 2
    /\ \E i \in 1..Len(entries) : entries[i].version > 0

\* The step is a successful update_entry of the entry id.
UpdatesEntry(id) == IsUpdateEntry /\ last'.res.ok /\ last'.arg[1].id = id

\* C21: in every step of a sequence of create_new_entry and update_entry
\* calls, failed ones included, an entry that appears has version 0, a
\* successful update of an entry raises its version by one, and every other
\* step leaves its version as it is (so the version never decreases and
\* counts the successful updates of the entry).
C21_VersionCountsUpdates ==
    [][\A id \in EntryIds :
          /\ id \in StoredIds(entries) => id \in StoredIds(entries')
          /\ (id \notin StoredIds(entries) /\ id \in StoredIds(entries'))
             => (/\ Stored(entries', id).version = 0
                 /\ IsCreateNewEntry /\ last'.res = Ok(id))
          /\ id \in StoredIds(entries)
             => Stored(entries', id).version =
                    IF UpdatesEntry(id)
                    THEN Stored(entries, id).version + 1
                    ELSE Stored(entries, id).version]_vars

\* An update of an entry updated twice was refused for its version, beside
\* an entry never updated.
C21_Witness ==
    /\ last.op = "update_entry"
    /\ last.res = Err(InvalidVersion)
    /\ \E i \in 1..Len(entries) :
          entries[i].version = 2 /\ entries[i].id = last.arg[1].id
    /\ \E i \in 1..Len(entries) : entries[i].version = 0

\* C22, as stated: no step changes the created timestamp of a stored entry,
\* a successful update included.
C22_CreatedSetOnce ==
    [][\A id \in StoredIds(entries) :
          Stored(entries', id).created = Stored(entries, id).created]_vars

\* C22, amended: created is the time of the call that stored the present
\* record: create_new_entry sets it, each successful update_entry of the
\* entry sets it anew to the time of the update, and every other step (a
\* refused update, a call for another entry) leaves it as it is.
C22_CreatedIsTimeOfLastWrite ==
    [][\A id \in EntryIds :
          /\ (id \notin StoredIds(entries) /\ id \in StoredIds(entries'))
             => Stored(entries', id).created = now
          /\ id \in StoredIds(entries)
             => Stored(entries', id).created =
                    IF UpdatesEntry(id) THEN now
                    ELSE Stored(entries, id).created]_vars

\* An entry created at time 0 was updated once, at a later time, and carries
\* the later time; another entry still carries time 0.
C22_Witness ==
    /\ last.op = "update_entry"
    /\ last.res.ok
    /\ now > 0
    /\ Len(entries) = 2
    /\ \E i \in 1..Len(entries) :
          /\ entries[i].id = last.arg[1].id
          /\ entries[i].version = 1
          /\ entries[i].created = now
    /\ \E i \in 1..Len(entries) :
          entries[i].version = 0 /\ entries[i].created = 0

\* C31: every stored entry passes validation, after any sequence of
\* create_new_entry and update_entry calls; an update_entry whose request
\* carries an invalid field has returned a validation error.
C31_StoredEntriesValid ==
    /\ \A i \in 1..Len(entries) : Validate(entries[i]).ok
    /\ (/\ last.op = "update_entry"
        /\ last.arg[1].id \in StoredIds(entries)
        /\ last.arg[1].email = "invalid")
       => ~last.res.ok

---------------------------------------------------------------------------
\* Properties of flows::update_entry (FlowSpec).

\* Request p has returned.
Done(p) == flow[p].pc = "done"

\* Requests p and q were both issued for the same entry with the version V
\* that was stored at the time, and both have returned.
BothIssuedAt(p, q, V) ==
    /\ p # q
    /\ Done(p) /\ Done(q)
    /\ flow[p].req.id = flow[q].req.id
    /\ flow[p].req.version = V /\ flow[p].issued_at = V
    /\ flow[q].req.version = V /\ flow[q].issued_at = V

\* The errors a request meets on its own account: the backend fails (no
\* connection, a failed store), or its fields do not validate.
OwnFailures(e) ==
    {ConnectionError, RollbackError} \cup
    (IF e.email = "invalid" THEN {ValidationError} ELSE {})

\* C2: of two update requests for the same entry that both carry the version
\* V stored when they were issued, at most one succeeds; then the stored
\* entry has version V+1 and the winner's fields, and the other request has
\* failed, with the version conflict unless it failed on its own account
\* (backend failure, invalid fields); when neither fails on its own account,
\* exactly one succeeds and the other gets the version conflict.
C2_NoLostUpdate ==
    \A p \in Procs, q \in Procs, V \in 0..(MaxVersion + 1) :
        BothIssuedAt(p, q, V) =>
            /\ ~(flow[p].result.ok /\ flow[q].result.ok)
            /\ flow[p].result.ok =>
                  /\ Stored(entries, flow[p].req.id).version = V + 1
                  /\ Stored(entries, flow[p].req.id).title = flow[p].req.title
                  /\ Stored(entries, flow[p].req.id).email = flow[p].req.email
                  /\ flow[q].result.err \in {InvalidVersion} \cup OwnFailures(flow[q].req)
            /\ (/\ flow[p].result.err \notin OwnFailures(flow[p].req)
                /\ flow[q].result.err \notin OwnFailures(flow[q].req))
               => \/ flow[p].result.ok /\ flow[q].result = Err(InvalidVersion)
                  \/ flow[q].result.ok /\ flow[p].result = Err(InvalidVersion)

\* Two requests with different fields raced for version 1; request 1 won and
\* request 2 got the version conflict.
C2_Witness ==
    /\ BothIssuedAt(1, 2, 1)
    /\ flow[1].req.title # flow[2].req.title
    /\ flow[1].result.ok
    /\ flow[2].result = Err(InvalidVersion)

\* C4: what update_entry returns is the outcome of phase 1: the updated place
\* whenever the transaction committed, whether the reindex and notification
\* steps succeeded or failed, and the error of phase 1 otherwise.
C4_ResultIsPhase1 ==
    \A p \in Procs : Done(p) => flow[p].result = flow[p].phase1

\* Both the reindex and the notification failed and the request returned the
\* updated place.
C4_Witness ==
    \E p \in Procs :
        /\ Done(p)
        /\ flow[p].phase1.ok
        /\ flow[p].index_calls = 1 /\ ~flow[p].index_ok
        /\ flow[p].notify_calls = 1 /\ ~flow[p].notify_ok
        /\ flow[p].result = Ok(flow[p].storable[1])

\* C5: the steps request p takes after phase 1 committed (reindex,
\* notification), failing or not, leave the primary store as it is.
C5_CommittedWriteKept ==
    [][\A p \in Procs :
          (flow[p].pc \in {"index", "notify"} /\ flow'[p] # flow[p])
          => entries' = entries]_vars

\* A reindex failed and a notification succeeded, and the store holds the
\* record the request committed.
C5_Witness ==
    \E p \in Procs :
        /\ Done(p)
        /\ flow[p].phase1.ok
        /\ ~flow[p].index_ok /\ flow[p].notify_ok
        /\ Stored(entries, flow[p].req.id) = flow[p].storable[1]
        /\ Stored(entries, flow[p].req.id).version = flow[p].req.version + 1

\* C6: when phase 1 has failed, in preparation or in storing, the store is
\* as it was when the transaction began, before the exclusive connection is
\* released: nothing the closure wrote remains.
C6_FailedPhase1RolledBack ==
    \A p \in Procs :
        (flow[p].pc = "release" /\ ~flow[p].phase1.ok)
        => (lock = p /\ entries = txBegin)

\* Storing failed for a valid request of the stored version, and the entry is
\* still the one of that version.
C6_Witness ==
    \E p \in Procs :
        /\ flow[p].pc = "release"
        /\ flow[p].phase1 = Err(RollbackError)
        /\ flow[p].storable # <<>>
        /\ Stored(entries, flow[p].req.id).version = flow[p].req.version

\* C7: the indexer and the notifier are called only for a request whose
\* phase 1 committed, after the exclusive connection was released; a request
\* whose phase 1 failed (also by not getting the connection) calls neither.
C7_FanOutAfterCommit ==
    \A p \in Procs :
        (\/ flow[p].pc \in {"index", "notify"}
         \/ flow[p].index_calls > 0
         \/ flow[p].notify_calls > 0)
        => (flow[p].phase1.ok /\ lock # p)

\* One request returned the connection error and one a version conflict,
\* and neither called the indexer or the notifier.
C7_Witness ==
    /\ Done(1) /\ flow[1].result = Err(ConnectionError)
    /\ Done(2) /\ flow[2].result = Err(InvalidVersion)
    /\ \A p \in Procs : flow[p].index_calls = 0 /\ flow[p].notify_calls = 0

\* The errors prepare_updated_place_rev returns.
PrepareErrors == {NotFound, InvalidVersion, ValidationError}

\* C24: a request whose preparation failed returns the error of the
\* preparation itself, not the error of the aborted transaction; the error of
\* the storage (aborted transaction, no connection) is returned only by a
\* request whose preparation did not fail: one whose store step failed, or
\* that got no connection.
C24_PrepareErrorVerbatim ==
    \A p \in Procs :
        (Done(p) /\ ~flow[p].result.ok) =>
            IF flow[p].prepare_err # ""
            THEN /\ flow[p].prepare_err \in PrepareErrors
                 /\ flow[p].result = Err(flow[p].prepare_err)
                 /\ flow[p].storable = <<>>
            ELSE \/ flow[p].result = Err(RollbackError) /\ flow[p].storable # <<>>
                 \/ flow[p].result = Err(ConnectionError) /\ flow[p].storable = <<>>

\* One request returned the validation error of its preparation and the
\* other the storage error of its failed store step.
C24_Witness ==
    /\ Done(1) /\ flow[1].result = Err(ValidationError)
    /\ flow[1].prepare_err = ValidationError
    /\ Done(2) /\ flow[2].result = Err(RollbackError)
    /\ flow[2].prepare_err = ""

\* C25: a request calls the indexer and the notifier at most once each; one
\* whose phase 1 committed has, when it returns, called each exactly once,
\* and it calls the notifier after the one call of the indexer, failed or
\* not.
C25_FanOutOnceEach ==
    \A p \in Procs :
        /\ flow[p].index_calls <= 1
        /\ flow[p].notify_calls <= 1
        /\ flow[p].pc = "notify" => (flow[p].index_calls = 1 /\ flow[p].notify_calls = 0)
        /\ (Done(p) /\ flow[p].phase1.ok)
           => (flow[p].index_calls = 1 /\ flow[p].notify_calls = 1)

\* A request whose reindex failed has called the indexer once and the
\* notifier once, and the notifier failed too or not.
C25_Witness ==
    \E p \in Procs :
        /\ Done(p)
        /\ flow[p].phase1.ok
        /\ flow[p].index_calls = 1 /\ ~flow[p].index_ok
        /\ flow[p].notify_calls = 1

\* The positions of phase 1, between connections.exclusive() and the end of
\* its block.
Phase1Positions == {"prepare", "store", "commit", "rollback", "release"}

\* C28: a request holds the exclusive connection only in phase 1: not when it
\* reindexes, not when it notifies (where it asks for a shared connection),
\* and not when it has returned, with the result of a commit or with an
\* error; and in phase 1 it is the one that holds it.
C28_ExclusiveOnlyInPhase1 ==
    \A p \in Procs :
        /\ lock = p => flow[p].pc \in Phase1Positions
        /\ flow[p].pc \in Phase1Positions => lock = p

\* Request 1 is at the notification, and request 2 has returned an error of
\* its phase 1; the exclusive connection is free.
C28_Witness ==
    /\ flow[1].pc = "notify"
    /\ Done(2) /\ ~flow[2].result.ok /\ flow[2].result.err # ConnectionError
    /\ lock = NoProc

\* C23: a request whose phase 1 committed returns its result to the caller,
\* whether or not the calls of the indexer and of the notifier ever return.
C23_ResultNotDelayed ==
    (flow[1].pc = "release" /\ flow[1].phase1.ok) ~> Done(1)

---------------------------------------------------------------------------
\* Properties of the tag use cases (TagSpec).

\* The tag identifiers the triple store relates to the entry id: the objects
\* of the IsTaggedAs triples whose subject is id, in the store's order.
TagIdsOfSubject(rs, id) ==
    LET Mine(t) == t.predicate = IsTaggedAs /\ t.subject = id IN
    ObjectsOf(SelectSeq(rs, Mine))

\* C8: for every triple store and entry id, get_tags_for_entry_id returns
\* exactly the objects of the IsTaggedAs triples whose subject is that id (a
\* tag attached only to another entry is not returned).
C8_TagsOfEntryOnly ==
    \A id \in EntryIds :
        get_tags_for_entry_id(tags, triples, id) = Ok(TagIdsOfSubject(triples, id))

\* The triples relating entry_id to a tag named tag.
TriplesOfPair(rt, rs, tag, entry_id) ==
    {i \in 1..Len(rs) :
        /\ rs[i].subject = entry_id
        /\ rs[i].predicate = IsTaggedAs
        /\ \E j \in 1..Len(rt) : rt[j].name = tag /\ rt[j].id = rs[i].object}

\* C9: whenever add_tag_to_entry(tag, entry) with a non-empty tag returns
\* success, the triple store holds (entry, IsTaggedAs, id of the tag named
\* tag), whatever triples were stored before.
C9_SuccessStoresTriple ==
    (last.op = "add_tag_to_entry" /\ last.arg[1] # "" /\ last.res.ok)
    => TriplesOfPair(tags, triples, last.arg[1], last.arg[2]) # {}

\* C10: two calls of add_tag_to_entry in a row with the same tag name and
\* entry id both succeed, the second leaves the tag and triple repositories
\* as the first left them, and there is exactly one IsTaggedAs triple for the
\* pair and exactly one tag of that name.
C10_AddTagTwice ==
    [][(/\ last.op = "add_tag_to_entry"
        /\ last.res.ok
        /\ last'.op = "add_tag_to_entry"
        /\ last'.again
        /\ \E id \in TagIds : AddTagToEntry(last.arg[1], last.arg[2], id))
       => /\ last'.res.ok
          /\ tags' = tags
          /\ triples' = triples
          /\ Cardinality(TriplesOfPair(tags', triples', last.arg[1], last.arg[2])) = 1
          /\ Cardinality({j \in 1..Len(tags') : tags'[j].name = last.arg[1]}) = 1]_vars

\* C11: add_tag_to_entry with the empty string as tag name returns
\* Error::Parameter(ParameterError::Tag) and leaves the tag repository and the
\* triple repository as they were, whatever they hold.
C11_EmptyTagRejected ==
    [][(/\ last'.op = "add_tag_to_entry"
        /\ last'.arg[1] = ""
        /\ \E id \in TagIds : AddTagToEntry("", last'.arg[2], id))
       => /\ last'.res = Err(ParameterTag)
          /\ tags' = tags
          /\ triples' = triples]_vars

\* The empty tag name was rejected while tags and a triple were stored.
C11_Witness ==
    /\ last.op = "add_tag_to_entry"
    /\ last.arg[1] = ""
    /\ last.res = Err(ParameterTag)
    /\ Len(tags) = 2
    /\ triples # <<>>

\* C12: after any sequence of create_new_entry and add_tag_to_entry calls the
\* triple store holds no two triples with the same subject, predicate and
\* object.
C12_NoDuplicateTriple ==
    \A i \in 1..Len(triples), j \in 1..Len(triples) :
        i # j => triples[i] # triples[j]

\* The same tag was added to the same entry twice in a row, with success, and
\* the store holds the triple.
C12_Witness ==
    /\ last.op = "add_tag_to_entry"
    /\ last.again
    /\ last.res.ok
    /\ triples = <<Triple(last.arg[2], tags[1].id)>>
    /\ tags[1].name = last.arg[1]

---------------------------------------------------------------------------
\* Properties of tag resolution by concurrent callers (ResolveSpec).

\* Callers p and q have both returned from find_or_create_tag_id_by_name for
\* the same name, which neither found in its scan: they ran concurrently.
BothMissed(p, q) ==
    /\ p # q
    /\ resolve[p].pc = "done" /\ resolve[q].pc = "done"
    /\ resolve[p].tag = resolve[q].tag
    /\ resolve[p].missed /\ resolve[q].missed

\* C13: two callers that resolve the same name, not stored when either
\* scanned, both return success and the identifier of the same tag, however
\* their scan and create steps interleave.
C13_RaceAbsorbed ==
    \A p \in Procs, q \in Procs :
        BothMissed(p, q) =>
            /\ resolve[p].result.ok
            /\ resolve[q].result.ok
            /\ resolve[p].result = resolve[q].result

\* C14: the tag repository never holds two tags of the same name.
C14_OneTagPerName ==
    \A i \in 1..Len(tags), j \in 1..Len(tags) :
        i # j => tags[i].name # tags[j].name

---------------------------------------------------------------------------
\* Properties of search_by_tags (SearchSpec).

\* The entry id is the subject of an IsTaggedAs triple whose object is a
\* stored tag with a name among tag_names.
TaggedWithOneOf(rt, rs, id, tag_names) ==
    \E i \in 1..Len(rs), j \in 1..Len(rt) :
        /\ rs[i].subject = id
        /\ rs[i].predicate = IsTaggedAs
        /\ rs[i].object = rt[j].id
        /\ rt[j].name \in tag_names

\* How often the entry e is in the list found.
Occurrences(found, e) == Cardinality({i \in 1..Len(found) : found[i] = e})

\* C15: whatever the three repositories hold and whatever names are passed,
\* search_by_tags returns the stored entries that are the subject of an
\* IsTaggedAs triple to a tag with one of the names, each once, and no other
\* entry.
C15_SearchExact ==
    last.op = "search_by_tags" =>
        /\ last.res.ok
        /\ Elems(last.res.val[1]) \subseteq Elems(entries)
        /\ \A k \in 1..Len(entries) :
              Occurrences(last.res.val[1], entries[k]) =
                  IF TaggedWithOneOf(tags, triples, entries[k].id, last.arg[1])
                  THEN 1 ELSE 0

\* A search for coffee and vegan found the entry tagged with both once, and
\* a search found one of two entries, the other being tagged with another
\* tag only.
C15_Witness ==
    /\ last.op = "search_by_tags"
    /\ Len(entries) = 2
    /\ Len(tags) = 2 /\ tags[1].name # tags[2].name
    /\ \/ /\ last.arg[1] = {"coffee", "vegan"}
          /\ SubjectsOf(triples) = <<"e1", "e2", "e1">>
          /\ Len(last.res.val[1]) = 2
       \/ /\ last.arg[1] = {"coffee"}
          /\ Len(triples) = 2
          /\ triples[1].subject # triples[2].subject
          /\ triples[1].object # triples[2].object
          /\ Len(last.res.val[1]) = 1

\* The step is a call of search_by_tags; last' holds its names and result.
IsSearchByTags == last'.op = "search_by_tags" /\ SearchByTags(last'.arg[1])

\* C16: a search_by_tags none of whose names is the name of a stored tag (an
\* empty list of names included) returns Ok with no entry, and leaves the
\* tag, triple and entry repositories as they were.
C16_NoMatchFindsNothing ==
    [][(/\ IsSearchByTags
        /\ \A j \in 1..Len(tags) : tags[j].name \notin last'.arg[1])
       => /\ last'.res = Ok(<<>>)
          /\ tags' = tags
          /\ triples' = triples
          /\ entries' = entries]_vars

\* A search with no name found nothing, with two entries stored and tagged.
C16_Witness ==
    /\ last.op = "search_by_tags"
    /\ last.arg[1] = {}
    /\ last.res = Ok(<<>>)
    /\ Len(entries) = 2
    /\ \A k \in 1..Len(entries) :
          TaggedWithOneOf(tags, triples, entries[k].id, ResolvedNames)

\* C26: whatever the triple repository holds and whatever tag ids are
\* passed, the list get_associated_entry_ids_of_tags returns holds no entry
\* identifier twice, also when the matching triples of an entry are not next
\* to each other in the repository.
C26_EntryIdsOnce ==
    last.op = "get_associated_entry_ids_of_tags" =>
        \A i \in 1..Len(last.res.val[1]), j \in 1..Len(last.res.val[1]) :
            i # j => last.res.val[1][i] # last.res.val[1][j]

\* The Result of rs.create(..) in add_is_tagged_relation, when add_tag_to_entry
\* gets as far as calling it: Ok("unit") stands for a call that is not made.
TripleCreateResult(rt, rs, tag, entry_id, id, t) ==
    LET f == find_or_create_tag_id_by_name(rt, tag, id, t) IN
    IF TagNameRejected(tag) \/ ~f.res.ok THEN Ok("unit")
    ELSE IF f.res.val[1] \in Elems(get_tags_for_entry_id(f.objects, rs, entry_id).val[1])
         THEN Ok("unit")
         ELSE RepoCreate(rs, Triple(entry_id, f.res.val[1])).res

\* C27: an add_tag_to_entry in which the create of the triple repository
\* returns an error returns that error.
C27_TripleCreateErrorReturned ==
    [][\A id \in TagIds :
          (/\ last'.op = "add_tag_to_entry"
           /\ AddTagToEntry(last'.arg[1], last'.arg[2], id)
           /\ ~TripleCreateResult(tags, triples, last'.arg[1], last'.arg[2], id, now).ok)
          => last'.res =
                 TripleCreateResult(tags, triples, last'.arg[1], last'.arg[2], id, now)]_vars

\* C29: request_entry for a stored id returns the stored entry, every field
\* of it (the version too) as it is stored, with the tags beside; for an id
\* that is not stored it returns RepoError::NotFound. (It writes to no
\* repository.)
C29_RequestEntryReturnsStored ==
    last.op = "request_entry" =>
        IF last.arg[1] \in StoredIds(entries)
        THEN /\ last.res.ok
             /\ \A f \in DOMAIN Stored(entries, last.arg[1]) :
                   last.res.val[1][f] = Stored(entries, last.arg[1])[f]
        ELSE last.res = Err(NotFound)

\* C30: every IsTaggedAs triple of the triple repository has the identifier
\* of a stored entry as subject and the identifier of a stored tag as
\* object; and an add_tag_to_entry for an entry id that is not stored has
\* left no tag and no triple behind.
C30_TriplesReferToStored ==
    /\ \A i \in 1..Len(triples) :
          triples[i].predicate = IsTaggedAs
          => /\ triples[i].subject \in StoredIds(entries)
             /\ triples[i].object \in StoredIds(tags)
    /\ (last.op = "add_tag_to_entry" /\ entries = <<>>)
       => (tags = <<>> /\ triples = <<>>)

---------------------------------------------------------------------------
\* Properties of review_place (ReviewSpec).

\* The reviewer of the request is a registered user with at least the role
\* Scout, and the status code of the request is that of a review status.
MayReview == review.email \in DOMAIN Users /\ Users[review.email] >= RoleScout
ValidStatus == ReviewStatus_try_from(review.status) # <<>>

\* C32: review_places is called, and a place modified, only in a request
\* whose reviewer was authorized as Scout or more and whose status code was
\* converted to a review status; a request of an unauthorized reviewer or
\* with an invalid status code returns an error with no call of
\* review_places and the places as they were; and a review_places that
\* updated no place makes the request return RepoError::NotFound.
C32_ReviewAfterChecks ==
    /\ (review.pc = "review" \/ review.calls > 0 \/ places # review.before)
       => /\ MayReview /\ review.reviewer_email = <<review.email>>
          /\ ValidStatus
          /\ review.review_status = ReviewStatus_try_from(review.status)
    /\ (review.pc = "done" /\ ~(MayReview /\ ValidStatus))
       => /\ ~review.result.ok
          /\ review.calls = 0
          /\ places = review.before
    /\ (review.pc = "done" /\ review.update_count = <<0>>)
       => (review.result = Err(NotFound) /\ places = review.before)
    /\ (review.pc = "done" /\ review.result.ok)
       => (review.update_count = <<1>> /\ places[review.id] = review.review_status[1])

\* After a review that archived a place, an admin's review with an invalid
\* status code was refused, and the place is still archived.
C32_Witness ==
    /\ review.pc = "done"
    /\ review.email = "admin"
    /\ review.status = 3
    /\ review.result = Err(ParameterRatingContext)
    /\ review.id = "p1"
    /\ places["p1"] = "archived"

====
